---- MODULE Spec2Model ----
(***************************************************************************)
(* Model of datalad_core/commands/dataset.py: the lazily resolving         *)
(* Dataset parameter type and the EnsureDataset constraint.                *)
(*                                                                         *)
(* Python values are records with a "type" field.  The filesystem is a     *)
(* chain of directories /, /a, /a/a, ... each holding nothing, a bare      *)
(* repository or a non-bare checkout.  A str is a sequence of tokens       *)
(* "/", "." and the component name "a"; pathlib's Path(str) parses it.     *)
(***************************************************************************)
EXTENDS Integers, Sequences, FiniteSets, TLC

VARIABLES
    fs,          \* directory -> "none" | "bare" | "checkout"
    marked,      \* directories whose entity has datalad.dataset.id in its datalad-branch config
    cwd,         \* process working directory
    ds,          \* the Dataset instance (or NoDataset)
    installed,   \* EnsureDataset._installed (or NoPolicy)
    pc,          \* position: "start", "user", "constraint", lines of __call__, "done"
    op,          \* the operation that ran last
    ret,         \* what it returned or raised
    log,         \* discovery constructor calls made by the last operation, in order
    first,       \* accessor -> what its first access returned
    given,       \* the value the Dataset was constructed from
    envChanged   \* filesystem or working directory changed since the Dataset was built

vars == <<fs, marked, cwd, ds, installed, pc, op, ret, log, first, given, envChanged>>

----------------------------------------------------------------------------
(* Bounds *)

MaxDepth == 1
MaxStrLen == 2

----------------------------------------------------------------------------
(* Values *)

None == [type |-> "None"]
NoDataset == [type |-> "NoDataset"]
NoRet == [type |-> "NoRet"]
Unset == [type |-> "Unset"]
NoPolicy == "unset"

Names == {"a"}
Tokens == {"/", ".", "a"}
Kinds == {"none", "bare", "checkout"}
Accessors == {"path", "repo", "worktree"}

SeqsUpTo(S, n) == UNION {[1..k -> S] : k \in 0..n}

Dirs == SeqsUpTo(Names, MaxDepth)

MkPath(root, parts) == [type |-> "Path", root |-> root, parts |-> parts]

\* a handle of the repository whose git directory is /parts
RepoAt(parts) == [type |-> "Repo", path |-> MkPath(TRUE, parts)]

\* a handle of the checkout rooted at /d, whose repository lives in /d/.git
WorktreeAt(d) ==
    [type |-> "Worktree", path |-> MkPath(TRUE, d), repo |-> RepoAt(d \o <<".git">>)]

\* a str: no two adjacent component tokens (they would spell another name),
\* and no leading "//" (POSIX keeps exactly two leading slashes as a root of its own)
WellFormedStr(s) ==
    /\ \A i \in 1..(Len(s) - 1) : s[i] = "/" \/ s[i + 1] = "/"
    /\ ~(Len(s) >= 2 /\ s[1] = "/" /\ s[2] = "/")

StrValues == {[type |-> "str", chars |-> s] : s \in {t \in SeqsUpTo(Tokens, MaxStrLen) : WellFormedStr(t)}}

PathValues == {MkPath(r, p) : r \in BOOLEAN, p \in Dirs}

HandleValues == {RepoAt(d) : d \in Dirs} \cup {WorktreeAt(d) : d \in Dirs}

\* shapes outside the annotation of Dataset.__init__: an int, and an
\* os.PathLike that is no pathlib.Path (a PurePath)
OtherValues == {[type |-> "int"]} \cup {[type |-> "PurePath", root |-> FALSE, parts |-> p] : p \in Dirs}

SupportedSpecs == {None} \cup PathValues \cup StrValues \cup HandleValues

AllValues == SupportedSpecs \cup OtherValues

Policies == {"None", "True", "False", "with-id"}

----------------------------------------------------------------------------
(* pathlib *)

TypeError == [type |-> "TypeError"]
ValueError == [type |-> "ValueError"]

IsException(v) == v.type \in {"TypeError", "ValueError"}

\* pathlib.Path(x): parses a str (separators and "." components vanish, a
\* leading separator makes the path absolute), copies a path-like, and
\* raises TypeError for anything else
Path(x) ==
    CASE x.type = "str" ->
            MkPath(Len(x.chars) > 0 /\ x.chars[1] = "/",
                   SelectSeq(x.chars, LAMBDA t : t \notin {"/", "."}))
      [] x.type \in {"Path", "PurePath"} -> MkPath(x.root, x.parts)
      [] OTHER -> TypeError

\* Path.cwd()
Path_cwd == MkPath(TRUE, cwd)

\* Path.absolute(): prefixes the working directory, resolves nothing
absolute(p) == IF p.root THEN p ELSE MkPath(TRUE, cwd \o p.parts)

----------------------------------------------------------------------------
(* datalad_core.repo: discovery *)

KindAt(parts) == IF parts \in Dirs THEN fs[parts] ELSE "none"

\* Repo(path): the repository rooted at path, or ValueError
Repo(path) ==
    IF KindAt(absolute(path).parts) = "bare"
    THEN RepoAt(absolute(path).parts)
    ELSE ValueError

\* Worktree(path): the checkout rooted at path, or ValueError
Worktree(path) ==
    IF KindAt(absolute(path).parts) = "checkout"
    THEN WorktreeAt(absolute(path).parts)
    ELSE ValueError

\* the directory of the entity a handle stands for
EntityDir(h) ==
    IF h.type = "Repo" /\ Len(h.path.parts) > 0 /\ h.path.parts[Len(h.path.parts)] = ".git"
    THEN SubSeq(h.path.parts, 1, Len(h.path.parts) - 1)
    ELSE h.path.parts

\* 'datalad.dataset.id' in entity.config.sources['datalad-branch']
HasDatasetId(h) == EntityDir(h) \in marked

get_gitmanaged_from_pathlike(cls, path) ==
    LET p == IF path.type # "Path" THEN Path(path) ELSE path
        r == IF cls = "Repo" THEN Repo(p) ELSE Worktree(p)
    IN  IF r = ValueError THEN None ELSE r

----------------------------------------------------------------------------
(* class Dataset *)

\* Dataset.__init__
Dataset(spec) ==
    [type |-> "Dataset", _spec |-> spec, _repo |-> None, _worktree |-> None, _path |-> None]

\* An accessor yields the instance after the access (d), the value it
\* returned or the exception it raised (ret), and the discovery
\* constructors it called (log).
Result(d, r, l) == [d |-> d, ret |-> r, log |-> l]

\* variant: the value is returned but not kept
SetWorktree_unkept(d, w, l) == Result(d, w, l)

\* self._worktree = w; return self._worktree
SetWorktree(d, w, l) == Result([d EXCEPT !._worktree = w], w, l)

\* self._repo = r; return self._repo
SetRepo(d, r, l) == Result([d EXCEPT !._repo = r], r, l)

\* variant: the value is returned but not kept
SetPath_unkept(d, p, l) == Result(d, p, l)

\* self._path = p; return self._path
SetPath(d, p, l) == Result([d EXCEPT !._path = p], p, l)

\* variant: a str spec is handed out as the path it spells
pristine_spec_as_path(d) == IF d._spec.type = "str" THEN Path(d._spec) ELSE d._spec

\* Dataset.pristine_spec
pristine_spec(d) == d._spec

\* Dataset.worktree, lines 150-159: the value for self._worktree
worktree_from_spec(d) ==
    CASE pristine_spec(d).type = "Worktree" -> pristine_spec(d)
      [] pristine_spec(d).type = "Path" ->
            get_gitmanaged_from_pathlike("Worktree", pristine_spec(d))
      [] pristine_spec(d).type = "str" ->
            get_gitmanaged_from_pathlike("Worktree", pristine_spec(d))
      [] OTHER -> d._worktree

\* Dataset.worktree
worktree(d) ==
    IF d._worktree = None
    THEN SetWorktree(d, worktree_from_spec(d),
                     IF pristine_spec(d).type \in {"Path", "str"} THEN <<"Worktree">> ELSE <<>>)
    ELSE Result(d, d._worktree, <<>>)

\* Dataset.repo, line 130, w the outcome of the second self.worktree
repo_of_worktree(w, l) == SetRepo(w.d, w.ret.repo, l \o w.log)

\* variant: a Repo handle is looked up again at its path
repo_from_spec_rediscover(d, l) ==
    CASE pristine_spec(d).type = "Repo" ->
            SetRepo(d, get_gitmanaged_from_pathlike("Repo", pristine_spec(d).path), l \o <<"Repo">>)
      [] pristine_spec(d).type \in {"Path", "str"} ->
            SetRepo(d, get_gitmanaged_from_pathlike("Repo", pristine_spec(d)), l \o <<"Repo">>)
      [] OTHER -> Result(d, d._repo, l)

\* Dataset.repo, lines 131-139
repo_from_spec(d, l) ==
    CASE pristine_spec(d).type = "Repo" -> SetRepo(d, pristine_spec(d), l)
      [] pristine_spec(d).type = "Path" ->
            SetRepo(d, get_gitmanaged_from_pathlike("Repo", pristine_spec(d)), l \o <<"Repo">>)
      [] pristine_spec(d).type = "str" ->
            SetRepo(d, get_gitmanaged_from_pathlike("Repo", pristine_spec(d)), l \o <<"Repo">>)
      [] OTHER -> Result(d, d._repo, l)

\* variant: the worktree's repository is not consulted
repo_resolve_spec_only(w) == repo_from_spec(w.d, w.log)

\* Dataset.repo, lines 129-139, w the outcome of self.worktree on line 129
repo_resolve(w) ==
    IF w.ret # None
    THEN repo_of_worktree(worktree(w.d), w.log)
    ELSE repo_from_spec(w.d, w.log)

\* variant: the _worktree field is read instead of the worktree property
repo_reads_field(d) ==
    IF d._repo # None
    THEN Result(d, d._repo, <<>>)
    ELSE repo_resolve(Result(d, d._worktree, <<>>))

\* Dataset.repo
repo(d) ==
    IF d._repo # None
    THEN Result(d, d._repo, <<>>)
    ELSE repo_resolve(worktree(d))

\* Dataset.path, lines 89 and 91: h the outcome of the accessor whose .path is taken
path_of(h, l) == SetPath(h.d, h.ret.path, l \o h.log)

\* variant: the fallback path is made absolute
path_from_spec_absolute(d) ==
    IF pristine_spec(d).type = "Path" THEN absolute(pristine_spec(d))
    ELSE IF IsException(Path(pristine_spec(d))) THEN Path(pristine_spec(d))
    ELSE absolute(Path(pristine_spec(d)))

\* Dataset.path, lines 99-110: nothing on the filesystem, the spec as-is
path_from_spec(d) ==
    IF pristine_spec(d).type = "Path" THEN pristine_spec(d) ELSE Path(pristine_spec(d))

\* variant: nothing on the filesystem is an error
path_fallback_raising(d, p, l) == Result(d, ValueError, l)

\* Dataset.path, lines 96-110, p the value of line 109 or the exception it raised
path_fallback(d, p, l) ==
    IF IsException(p) THEN Result(d, p, l) ELSE SetPath(d, p, l)

\* Dataset.path, lines 91-110, r the outcome of self.repo on line 92
path_via_repo(r, l) ==
    IF r.ret # None
    THEN path_of(repo(r.d), l \o r.log)
    ELSE path_fallback(r.d, path_from_spec(r.d), l \o r.log)

\* variant: the repository is discovered without asking for a worktree
path_resolve_repo_first(w) == path_via_repo(repo_from_spec(w.d, <<>>), <<>>)

\* Dataset.path, lines 88-110, w the outcome of self.worktree on line 90
path_resolve(w) ==
    IF w.ret # None
    THEN path_of(worktree(w.d), w.log)
    ELSE path_via_repo(repo(w.d), w.log)

\* variant: the kept path is not looked at
path_uncached(d) ==
    IF d._spec = None THEN SetPath(d, Path_cwd, <<>>)
    ELSE path_resolve(worktree(d))

\* Dataset.path
path(d) ==
    IF d._path # None THEN Result(d, d._path, <<>>)
    ELSE IF d._spec = None THEN SetPath(d, Path_cwd, <<>>)
    ELSE path_resolve(worktree(d))

----------------------------------------------------------------------------
(* class EnsureDataset *)

\* Python truth value of self._installed
Truthy(inst) == inst \in {"True", "with-id"}

\* a str as its characters
Chars(w) ==
    CASE w = "(path to) "      -> <<"(", "p", "a", "t", "h", " ", "t", "o", ")", " ">>
      [] w = "an existing "    -> <<"a", "n", " ", "e", "x", "i", "s", "t", "i", "n", "g", " ">>
      [] w = "a non-existing " -> <<"a", " ", "n", "o", "n", "-", "e", "x", "i", "s", "t", "i", "n", "g", " ">>
      [] w = "a "              -> <<"a", " ">>
      [] w = "dataset"         -> <<"d", "a", "t", "a", "s", "e", "t">>
      [] w = "existing"        -> <<"e", "x", "i", "s", "t", "i", "n", "g">>
      [] w = "non-existing"    -> <<"n", "o", "n", "-", "e", "x", "i", "s", "t", "i", "n", "g">>

\* variant: every policy but must-exist reads as must-not-exist
input_synopsis_falsy(inst) ==
    Chars("(path to) ")
        \o (IF Truthy(inst) THEN Chars("an existing ") ELSE Chars("a non-existing "))
        \o Chars("dataset")

\* EnsureDataset.input_synopsis
input_synopsis(inst) ==
    Chars("(path to) ")
        \o (IF Truthy(inst) THEN Chars("an existing ")
            ELSE IF inst = "False" THEN Chars("a non-existing ")
            ELSE Chars("a "))
        \o Chars("dataset")

NoCtx == [type |-> "-", __caused_by__ |-> None]

\* Constraint.raise_for(value, msg, **ctx): raises, never returns
raise_for(value, msg, ctx) ==
    [type |-> "ConstraintError", msg |-> msg, value |-> value, ctx |-> ctx]

Raised(msg) == ret.type = "ConstraintError" /\ ret.msg = msg

\* x or y, x already evaluated to w and y to r
or_else(w, r) == Result(r.d, r.ret, w.log \o r.log)

\* variant: only the worktree is looked at
or_repo_worktree_only(w) == w

\* ds.worktree or ds.repo, w the outcome of ds.worktree
or_repo(w) == IF w.ret # None THEN w ELSE or_else(w, repo(w.d))

\* ds.worktree or ds.repo
worktree_or_repo(d) == or_repo(worktree(d))

----------------------------------------------------------------------------
(* Initial state and operations *)

Init ==
    /\ fs \in [Dirs -> Kinds]
    /\ marked = {}
    /\ cwd \in Dirs
    /\ ds = NoDataset
    /\ installed = NoPolicy
    /\ pc = "start"
    /\ op = "none"
    /\ ret = NoRet
    /\ log = <<>>
    /\ first = [a \in Accessors |-> Unset]
    /\ given = NoRet
    /\ envChanged = FALSE

\* Dataset(spec), built by the caller
Dataset__init__ ==
    \E spec \in AllValues :
        /\ pc = "start"
        /\ ds' = Dataset(spec)
        /\ given' = spec
        /\ pc' = "user"
        /\ op' = "__init__"
        /\ UNCHANGED <<fs, marked, cwd, installed, ret, log, first, envChanged>>

\* one access to an accessor of the caller's instance
Access(name, r) ==
    /\ pc = "user"
    /\ ds' = r.d
    /\ op' = name
    /\ ret' = r.ret
    /\ log' = r.log
    /\ first' = IF first[name] = Unset THEN [first EXCEPT ![name] = r.ret] ELSE first
    /\ UNCHANGED <<fs, marked, cwd, installed, pc, envChanged, given>>

AccessPath == Access("path", path(ds))

AccessRepo == Access("repo", repo(ds))

AccessWorktree == Access("worktree", worktree(ds))

AccessPristineSpec ==
    /\ pc = "user"
    /\ op' = "pristine_spec"
    /\ ret' = pristine_spec(ds)
    /\ log' = <<>>
    /\ UNCHANGED <<fs, marked, cwd, ds, installed, pc, first, envChanged, given>>

\* another process creates, converts or removes what is in a directory
FsChange ==
    \E d \in Dirs, k \in Kinds :
        /\ pc = "user"
        /\ fs[d] # k
        /\ fs' = [fs EXCEPT ![d] = k]
        /\ marked' = marked \ {d}
        /\ envChanged' = TRUE
        /\ UNCHANGED <<cwd, ds, installed, pc, op, ret, log, first, given>>

\* the datalad-branch configuration of an entity gains or loses
\* datalad.dataset.id (only __call__ reads it)
SetDatasetId ==
    \E d \in Dirs :
        /\ pc = "constraint"
        /\ fs[d] # "none"
        /\ d \notin marked
        /\ marked' = marked \cup {d}
        /\ UNCHANGED <<fs, cwd, ds, installed, pc, op, ret, log, first, envChanged, given>>

\* os.chdir
Chdir ==
    \E d \in Dirs :
        /\ pc = "user"
        /\ d # cwd
        /\ cwd' = d
        /\ envChanged' = TRUE
        /\ UNCHANGED <<fs, marked, ds, installed, pc, op, ret, log, first, given>>

\* EnsureDataset.__init__
EnsureDataset__init__ ==
    \E inst \in Policies :
        /\ pc = "start"
        /\ installed' = inst
        /\ pc' = "constraint"
        /\ op' = "EnsureDataset"
        /\ UNCHANGED <<fs, marked, cwd, ds, ret, log, first, envChanged, given>>

InputSynopsis ==
    /\ pc = "constraint"
    /\ op' = "input_synopsis"
    /\ ret' = [type |-> "str", chars |-> input_synopsis(installed)]
    /\ UNCHANGED <<fs, marked, cwd, ds, installed, pc, log, first, envChanged, given>>

\* __call__, line 214
Call ==
    \E value \in AllValues :
        /\ pc = "constraint"
        /\ ds' = Dataset(value)
        /\ given' = value
        /\ pc' = "resolve"
        /\ op' = "__call__"
        /\ ret' = NoRet
        /\ log' = <<>>
        /\ UNCHANGED <<fs, marked, cwd, installed, first, envChanged>>

\* the call ends: it returns r or raises r
Finish(d, r, l) ==
    /\ ds' = d
    /\ ret' = r
    /\ log' = l
    /\ pc' = "done"

\* the call goes on at line next
Goto(d, l, next) ==
    /\ ds' = d
    /\ log' = l
    /\ pc' = next
    /\ ret' = ret

\* lines 215-224, p the outcome of ds.path
resolve(value, p) ==
    IF IsException(p.ret)
    THEN Finish(p.d,
                raise_for(value, "cannot create Dataset from {type}: {__caused_by__}",
                          [type |-> value.type, __caused_by__ |-> p.ret]),
                p.log)
    ELSE Goto(p.d, p.log, "check_absent")

\* variant: an existing entity does not end the call
check_absent_nonterminal(e) == Goto(e.d, e.log, "check_present")

\* lines 225-226, e the outcome of (ds.worktree or ds.repo)
check_absent(e) ==
    IF e.ret # None
    THEN Finish(e.d, raise_for(e.d, "already exists locally", NoCtx), e.log)
    ELSE Goto(e.d, e.log, "check_present")

\* lines 227-230, e the outcome of (ds.worktree or ds.repo)
check_present(inst, e) ==
    IF e.ret = None
    THEN Finish(e.d, raise_for(e.d, "not installed", NoCtx), e.log)
    ELSE IF inst # "with-id"
    THEN Finish(e.d, e.d, e.log)
    ELSE Goto(e.d, e.log, "query")

\* variant: the identifier is not looked up
query_unchecked(q) == Finish(q.d, q.d, q.log)

\* lines 232-237, q the outcome of (ds.worktree or ds.repo)
query(q) ==
    IF q.ret = None
    THEN Finish(q.d, [type |-> "AttributeError"], q.log)
    ELSE IF ~HasDatasetId(q.ret)
    THEN Finish(q.d, raise_for(q.d, "does not have a datalad-id", NoCtx), q.log)
    ELSE Finish(q.d, q.d, q.log)

\* __call__, lines 215-224
CallResolve ==
    /\ pc = "resolve"
    /\ resolve(ds._spec, path(ds))
    /\ UNCHANGED <<fs, marked, cwd, installed, op, first, envChanged, given>>

\* __call__, lines 225-226
CallCheckAbsent ==
    /\ pc = "check_absent"
    /\ IF installed = "False"
       THEN check_absent(worktree_or_repo(ds))
       ELSE Goto(ds, <<>>, "check_present")
    /\ UNCHANGED <<fs, marked, cwd, installed, op, first, envChanged, given>>

\* __call__, lines 227-230
CallCheckPresent ==
    /\ pc = "check_present"
    /\ IF Truthy(installed)
       THEN check_present(installed, worktree_or_repo(ds))
       ELSE Finish(ds, ds, <<>>)
    /\ UNCHANGED <<fs, marked, cwd, installed, op, first, envChanged, given>>

\* __call__, lines 232-237
CallQuery ==
    /\ pc = "query"
    /\ query(worktree_or_repo(ds))
    /\ UNCHANGED <<fs, marked, cwd, installed, op, first, envChanged, given>>

Next ==
    \/ Dataset__init__
    \/ AccessPath
    \/ AccessRepo
    \/ AccessWorktree
    \/ AccessPristineSpec
    \/ FsChange
    \/ Chdir
    \/ SetDatasetId
    \/ EnsureDataset__init__
    \/ InputSynopsis
    \/ Call
    \/ CallResolve
    \/ CallCheckAbsent
    \/ CallCheckPresent
    \/ CallQuery

Spec == Init /\ [][Next]_vars

\* another process changes a directory while __call__ runs
FsChangeInCall ==
    \E d \in Dirs, k \in Kinds :
        /\ pc \in {"resolve", "check_absent", "check_present", "query"}
        /\ fs[d] # k
        /\ fs' = [fs EXCEPT ![d] = k]
        /\ marked' = marked \ {d}
        /\ envChanged' = TRUE
        /\ UNCHANGED <<cwd, ds, installed, pc, op, ret, log, first, given>>

\* the working directory changes while __call__ runs (another thread)
ChdirInCall ==
    \E d \in Dirs :
        /\ pc \in {"resolve", "check_absent", "check_present", "query"}
        /\ d # cwd
        /\ cwd' = d
        /\ envChanged' = TRUE
        /\ UNCHANGED <<fs, marked, ds, installed, pc, op, ret, log, first, given>>

NextInterleaved ==
    \/ EnsureDataset__init__
    \/ SetDatasetId
    \/ Call
    \/ CallResolve
    \/ CallCheckAbsent
    \/ CallCheckPresent
    \/ CallQuery
    \/ FsChangeInCall
    \/ ChdirInCall

\* a validation whose environment changes between its steps
SpecInterleaved == Init /\ [][NextInterleaved]_vars

----------------------------------------------------------------------------
(* Vocabulary of the properties *)

\* the spec of the instance read as a path
SpecPath == IF ds._spec.type = "Path" THEN ds._spec ELSE Path(ds._spec)

\* the directory a Path or str spec points at
SpecDir == absolute(SpecPath).parts

IsPathSpec == ds._spec.type \in {"Path", "str"}

IsPrefix(p, q) == Len(p) <= Len(q) /\ SubSeq(q, 1, Len(p)) = p

\* the call returned its Dataset
Returned == ret = ds

\* what exists for the value of the call, read off the filesystem
EntityPresent ==
    CASE ds._spec.type \in {"Repo", "Worktree"} -> TRUE
      [] IsPathSpec -> KindAt(SpecDir) # "none"
      [] OTHER -> FALSE

\* the directory of the entity the marker lookup asks
QueriedDir == IF IsPathSpec THEN SpecDir ELSE EntityDir(ds._spec)

\* w occurs in s as a word, delimited by blanks or the ends of s
HasWord(s, w) ==
    \E i \in 1..(Len(s) - Len(w) + 1) :
        /\ SubSeq(s, i, i + Len(w) - 1) = w
        /\ i = 1 \/ s[i - 1] = " "
        /\ i + Len(w) > Len(s) \/ s[i + Len(w)] = " "

----------------------------------------------------------------------------
(* Properties *)

\* C1: every access to path, repo or worktree returns what the first access
\* to that accessor returned, also when that was None and discovery has
\* changed since.
C1_SameAsFirstAccess ==
    (pc = "user" /\ op \in Accessors) => ret = first[op]

\* C2: whenever worktree returns a Worktree, repo returns that worktree's
\* repository.
C2_RepoIsWorktreeRepo ==
    (pc = "user" /\ ds._spec \in SupportedSpecs /\ worktree(ds).ret # None)
        => repo(ds).ret = worktree(ds).ret.repo

\* C3: for a Path or str spec and an unchanging filesystem: a checkout at the
\* spec gives a worktree, a repo and the checkout root as path; a bare
\* repository gives no worktree, a repo and the repository root; nothing
\* there gives no worktree, no repo and the spec itself as path.
C3_ResolutionTable ==
    (pc = "user" /\ ~envChanged /\ IsPathSpec /\ op \in Accessors) =>
        CASE KindAt(SpecDir) = "checkout" ->
                /\ op = "worktree" => ret = WorktreeAt(SpecDir)
                /\ op = "repo" => ret.type = "Repo"
                /\ op = "path" => ret = MkPath(TRUE, SpecDir)
          [] KindAt(SpecDir) = "bare" ->
                /\ op = "worktree" => ret = None
                /\ op = "repo" => ret = RepoAt(SpecDir)
                /\ op = "path" => ret = MkPath(TRUE, SpecDir)
          [] OTHER ->
                /\ op = "worktree" => ret = None
                /\ op = "repo" => ret = None
                /\ op = "path" => ret = SpecPath

C3_Witness ==
    /\ pc = "user" /\ ~envChanged
    /\ ds._spec.type = "str" /\ ~SpecPath.root
    /\ KindAt(SpecDir) = "checkout"
    /\ op = "repo" /\ ret = WorktreeAt(SpecDir).repo
    /\ ds._path = MkPath(TRUE, SpecDir)

\* C4: for a supported value, installed=False fails with 'already exists
\* locally' exactly when a repo or worktree is present and returns the
\* Dataset otherwise; installed=True fails with 'not installed' exactly when
\* neither is present and returns the Dataset otherwise; installed=None
\* returns the Dataset.
C4_ExistencePolicy ==
    (pc = "done" /\ ds._spec \in SupportedSpecs) =>
        /\ installed = "False" =>
              /\ Raised("already exists locally") <=> EntityPresent
              /\ ~EntityPresent => Returned
        /\ installed = "True" =>
              /\ Raised("not installed") <=> ~EntityPresent
              /\ EntityPresent => Returned
        /\ installed = "None" => Returned

C4_Witness ==
    /\ pc = "done" /\ installed = "False"
    /\ ds._spec.type = "str"
    /\ KindAt(SpecDir) = "bare"
    /\ Raised("already exists locally")

\* C5 as stated: under installed='with-id', with the entity present, the
\* call fails with "does not have a required identifier" exactly when
\* datalad.dataset.id is missing from the queried entity, and returns the
\* Dataset otherwise.
C5_RequiredIdentifierMessage ==
    (pc = "done" /\ installed = "with-id" /\ ds._spec \in SupportedSpecs /\ EntityPresent) =>
        /\ Raised("does not have a required identifier") <=> QueriedDir \notin marked
        /\ QueriedDir \in marked => Returned

\* C5 amended: the same, the failure being 'does not have a datalad-id'.
C5_MarkerPolicy ==
    (pc = "done" /\ installed = "with-id" /\ ds._spec \in SupportedSpecs /\ EntityPresent) =>
        /\ Raised("does not have a datalad-id") <=> QueriedDir \notin marked
        /\ QueriedDir \in marked => Returned

C5_Witness ==
    /\ pc = "done" /\ installed = "with-id"
    /\ IsPathSpec /\ KindAt(SpecDir) = "checkout"
    /\ marked # {} /\ SpecDir \notin marked
    /\ Raised("does not have a datalad-id")

\* C6: validating None under a must-exist policy does not fail with 'not
\* installed' when a dataset exists at or above the working directory.
C6_UpwardSearch ==
    (/\ pc = "done"
     /\ Truthy(installed)
     /\ ds._spec = None
     /\ \E d \in Dirs : IsPrefix(d, cwd) /\ fs[d] # "none")
        => ~Raised("not installed")

\* C7: for a None spec, path is the working directory of the moment of the
\* first access to path, and every later access returns that value whatever
\* the working directory has become.
C7_CwdAtFirstAccess ==
    [][(pc = "user" /\ ds._spec = None /\ op' = "path") =>
          ret' = IF first["path"] = Unset THEN MkPath(TRUE, cwd) ELSE first["path"]]_vars

C7_Witness ==
    /\ pc = "user" /\ ds._spec = None
    /\ op = "path" /\ ret = first["path"]
    /\ ret # MkPath(TRUE, cwd)

\* C8: a value that is none of None, Path, str, Repo, Worktree always ends
\* the call with 'cannot create Dataset from {type}', carrying its type and
\* the cause.
C8_UnsupportedShapeRejected ==
    (pc = "done" /\ ds._spec \in OtherValues) =>
        /\ Raised("cannot create Dataset from {type}: {__caused_by__}")
        /\ ret.ctx.type = ds._spec.type
        /\ IsException(ret.ctx.__caused_by__)

\* C9 as stated: for every supported spec path returns an absolute path.
C9_PathAlwaysAbsolute ==
    (pc = "user" /\ ds._spec \in SupportedSpecs /\ op = "path") =>
        ret.type = "Path" /\ ret.root

\* C9 amended: for every supported spec path returns a path without raising;
\* it is absolute unless the spec is a relative Path or str at which nothing
\* was found, and then it is that relative path as given.
C9_PathAbsoluteUnlessRelativeSpec ==
    (pc = "user" /\ ds._spec \in SupportedSpecs /\ op = "path") =>
        /\ ret.type = "Path"
        /\ ~ret.root => IsPathSpec /\ ret = SpecPath
        /\ (~envChanged /\ IsPathSpec /\ ~SpecPath.root) =>
              (ret.root <=> KindAt(SpecDir) # "none")

C9_Witness ==
    /\ pc = "user" /\ ~envChanged
    /\ ds._spec.type = "Path" /\ ~ds._spec.root
    /\ op = "path" /\ ret = ds._spec

\* C10: the synopsis has the word 'existing' exactly for installed=True and
\* 'with-id', the word 'non-existing' exactly for installed=False, and
\* neither for installed=None.
C10_SynopsisByPolicy ==
    op = "input_synopsis" =>
        /\ HasWord(ret.chars, Chars("existing")) <=> Truthy(installed)
        /\ HasWord(ret.chars, Chars("non-existing")) <=> installed = "False"

C10_Witness ==
    /\ op = "input_synopsis"
    /\ installed = "False"
    /\ HasWord(ret.chars, Chars("non-existing"))
    /\ ~HasWord(ret.chars, Chars("existing"))

\* C11: pristine_spec returns exactly the value given to the constructor,
\* and no access to path, repo or worktree and no validation changes it.
C11_PristineSpecKept ==
    /\ ds.type = "Dataset" => pristine_spec(ds) = given
    /\ op = "pristine_spec" => ret = given

C11_Witness ==
    /\ pc = "user"
    /\ op = "pristine_spec" /\ ret = given
    /\ given.type = "str" /\ given.chars = <<"a", "/">>
    /\ ds._path = MkPath(TRUE, <<"a">>)
    /\ ds._worktree # None /\ ds._repo # None

\* how often x occurs in l
Count(l, x) == Cardinality({i \in 1..Len(l) : l[i] = x})

\* C12: on one instance Worktree(path) is invoked at most once and
\* Repo(path) at most once, whatever the accesses and also when discovery
\* finds nothing; so no single access or validation step invokes either twice.
C12_DiscoveredAtMostOnce ==
    ds.type = "Dataset" => Count(log, "Worktree") <= 1 /\ Count(log, "Repo") <= 1

\* C13: once path has returned a value, every later access to path returns
\* it, whatever appears or disappears on the filesystem and whatever repo
\* and worktree return afterwards.
C13_PathNeverChanges ==
    (pc = "user" /\ ds._spec \in SupportedSpecs) =>
        /\ op = "path" => ret = first["path"]
        /\ first["path"] # Unset => path(ds).ret = first["path"]

C13_Witness ==
    /\ pc = "user" /\ envChanged
    /\ op = "path" /\ ret = first["path"]
    /\ IsPathSpec /\ ~ret.root
    /\ ds._worktree = WorktreeAt(SpecDir)

\* C14: under installed='with-id', whenever control reaches the marker
\* lookup the entity to query (ds.worktree or ds.repo) is not None, also when
\* discovery has changed since the 'not installed' check.
C14_QueriedEntityNotNone ==
    /\ pc = "query" => worktree_or_repo(ds).ret # None
    /\ pc = "done" => ret.type # "AttributeError"

C14_Witness ==
    /\ pc = "query" /\ envChanged
    /\ IsPathSpec /\ KindAt(SpecDir) = "none"
    /\ worktree_or_repo(ds).ret.type \in {"Repo", "Worktree"}

\* C15: a validation ends in exactly one of: the Dataset returned, the
\* construction error, 'already exists locally', 'not installed', the
\* missing identifier.  Path resolution, must-not-exist, must-exist and the
\* marker lookup run in this order, the first failing one ends the call, and
\* the Dataset is returned only if none failed.
C15_FirstFailureEndsCall ==
    [][/\ pc = "resolve" =>
            \/ pc' = "check_absent" /\ ds'._path # None
            \/ pc' = "done" /\ Raised("cannot create Dataset from {type}: {__caused_by__}")'
       /\ pc = "check_absent" =>
            \/ pc' = "check_present" /\ ~(installed = "False" /\ EntityPresent)
            \/ pc' = "done" /\ Raised("already exists locally")'
       /\ pc = "check_present" =>
            \/ pc' = "query" /\ installed = "with-id" /\ EntityPresent
            \/ pc' = "done" /\ (Raised("not installed")' \/ Returned')
       /\ pc = "query" =>
            pc' = "done" /\ (Raised("does not have a datalad-id")' \/ Returned')
       /\ pc = "done" => FALSE
       /\ (pc' = "done" /\ Returned') =>
            /\ ds'._path # None
            /\ ~(installed = "False" /\ EntityPresent)
            /\ ~(Truthy(installed) /\ ~EntityPresent)
            /\ installed = "with-id" => QueriedDir \in marked]_vars

C15_Witness ==
    /\ pc = "done" /\ installed = "with-id"
    /\ Returned
    /\ ds._spec.type = "Path" /\ ds._worktree = None /\ ds._repo = RepoAt(SpecDir)

\* C16: for a Path or str spec at which Repo(path) and Worktree(path) signal
\* ValueError, worktree and repo return None and path returns the given
\* path, none of them raising; only a must-exist policy of EnsureDataset
\* makes the absence a failure.
C16_AbsenceIsNotAnError ==
    /\ (/\ pc = "user" /\ IsPathSpec
        /\ Worktree(SpecPath) = ValueError /\ Repo(SpecPath) = ValueError
        /\ ds._worktree = None /\ ds._repo = None) =>
            /\ worktree(ds).ret = None
            /\ repo(ds).ret = None
            /\ path(ds).ret = IF ds._path # None THEN ds._path ELSE SpecPath
    /\ (pc = "done" /\ IsPathSpec /\ ~EntityPresent) =>
            IF Truthy(installed) THEN Raised("not installed") ELSE Returned

C16_Witness ==
    /\ pc = "user" /\ ~envChanged
    /\ IsPathSpec /\ Worktree(SpecPath) = ValueError /\ Repo(SpecPath) = ValueError
    /\ first["worktree"] = None /\ first["repo"] = None
    /\ op = "path" /\ ret = SpecPath
    /\ log = <<"Worktree", "Worktree", "Repo">>

\* C17: when path is resolved for a Path or str spec, Worktree(path) is
\* tried before Repo(path), Repo(path) is tried only if no worktree was
\* found, and with a worktree found the path is its root and Repo(path) is
\* not tried.
C17_WorktreeBeforeRepo ==
    (pc = "user" /\ IsPathSpec /\ op = "path" /\ log # <<>>) =>
        /\ log[1] = "Worktree"
        /\ \A i \in 1..Len(log) :
              log[i] = "Repo" =>
                  /\ i = Len(log)
                  /\ ds._worktree = None
        /\ ds._worktree # None =>
              /\ log = <<"Worktree">>
              /\ ret = ds._worktree.path

C17_Witness ==
    /\ pc = "user" /\ IsPathSpec
    /\ op = "path" /\ log = <<"Worktree">>
    /\ ds._worktree = WorktreeAt(SpecDir) /\ ret = MkPath(TRUE, SpecDir)
    /\ ds._repo = None

\* C18: for a None spec and for a Repo spec worktree is None after any
\* accesses and neither Repo(path) nor Worktree(path) is ever invoked; for a
\* None spec repo is None; for a Repo spec repo is the given handle and path
\* is its path.
C18_NoDiscoveryWithoutPath ==
    (ds.type = "Dataset" /\ ds._spec.type \in {"None", "Repo"}) =>
        /\ log = <<>>
        /\ ds._worktree = None
        /\ worktree(ds).ret = None
        /\ repo(ds).ret = IF ds._spec = None THEN None ELSE ds._spec
        /\ (pc = "user" /\ op = "worktree") => ret = None
        /\ (pc = "user" /\ op = "repo") => ret = IF ds._spec = None THEN None ELSE ds._spec
        /\ (pc = "user" /\ op = "path" /\ ds._spec.type = "Repo") => ret = ds._spec.path

C18_Witness ==
    /\ pc = "user" /\ envChanged
    /\ ds._spec.type = "Repo" /\ KindAt(EntityDir(ds._spec)) = "none"
    /\ op = "path" /\ ret = ds._spec.path
    /\ ds._repo = ds._spec /\ first["worktree"] = None

\* C19: with an unchanging filesystem, what path, repo and worktree return
\* does not depend on the order of the accesses: after any accesses each
\* accessor returns what it returns as the first access on a new instance
\* of the same spec.
C19_OrderIndependent ==
    (pc = "user" /\ ~envChanged /\ ds._spec \in SupportedSpecs) =>
        /\ op = "path" => ret = path(Dataset(ds._spec)).ret
        /\ op = "repo" => ret = repo(Dataset(ds._spec)).ret
        /\ op = "worktree" => ret = worktree(Dataset(ds._spec)).ret
        /\ path(ds).ret = path(Dataset(ds._spec)).ret
        /\ repo(ds).ret = repo(Dataset(ds._spec)).ret
        /\ worktree(ds).ret = worktree(Dataset(ds._spec)).ret

C19_Witness ==
    /\ pc = "user" /\ ~envChanged
    /\ ds._spec.type = "str" /\ KindAt(SpecDir) = "checkout"
    /\ first["worktree"] = WorktreeAt(SpecDir)
    /\ first["repo"] = WorktreeAt(SpecDir).repo
    /\ first["path"] = MkPath(TRUE, SpecDir)
    /\ op = "worktree"

====
